---------------------------- MODULE Spec2Model ----------------------------
(***************************************************************************)
(* fileflip: rotate a file held open by another process by injecting       *)
(* system calls into it through ptrace.                                    *)
(*                                                                         *)
(* The model has three parts:                                              *)
(*   - the tracer: main.go (impl = "main") and pkg/flip + pkg/ptrace       *)
(*     (impl = "pkg"), one action per stretch of code between two waits;   *)
(*   - the tracee and the kernel: the tracee's own system calls, signal    *)
(*     delivery, death, and the execution of whatever system call the      *)
(*     register file names when the tracee is resumed from an entry stop;  *)
(*   - history variables (ops, tIssued, tDone, snap0, failed) that record  *)
(*     record what happened and are read by the properties only.           *)
(*                                                                         *)
(* Register values are 64-bit; a value v >= 2^63 is written as the         *)
(* negative integer v - 2^64 (two's complement).                           *)
(***************************************************************************)
EXTENDS Integers, Sequences, FiniteSets, TLC

\* ------------------------------------------------------------ bounds
\* RemoteSyscall taken alone is called with up to MaxArgs arguments and
\* translates result registers within ErrnoSpan of zero and of the errno
\* boundary.
MaxArgs == 7
ErrnoSpan == 2

\* The length of the tracee's program: it issues its k-th system call at
\* program counter k - 1, and none at program counter MaxRip.
MaxRip == 3
\* How many signals the environment may send to the tracee.
MaxSignals == 1

\* ------------------------------------------------- program constants
exitOk == 0
exitArgs == 1
exitErr == 2
pageSize == 4096
bit7thSet == 128
\* maxErrnoValue = 2^64 - 4095, in two's complement
maxErrnoValue == -4095
SIGTRAP == 5
SIGKILL == 9
SIGUSR1 == 10
SIGSTOP == 19
SYS_WRITE == 1
SYS_OPEN == 2
SYS_CLOSE == 3
SYS_MMAP == 9
SYS_MUNMAP == 11
SYS_DUP2 == 33
SYS_FCNTL == 72
F_GETFL == 3
PROT_READ == 1
PROT_WRITE == 2
MAP_PRIVATE == 2
MAP_ANONYMOUS == 32
O_WRONLY == 1
O_CREAT == 64
O_APPEND == 1024
\* creation flags open(2) does not keep in the file status flags:
\* O_CREAT | O_EXCL | O_NOCTTY | O_TRUNC
O_CREATION_MASK == 960
EPERM == 1
ESRCH == 3
EIO == 5
EBADF == 9
ENOMEM == 12
EACCES == 13
EFAULT == 14
EINVAL == 22
ENOSYS == 38

childRunning == "childRunning"
childSignalDelivery == "childSignalDelivery"
childSyscallEnter == "childSyscallEnter"
childSyscallExit == "childSyscallExit"
childExited == "childExited"
childKilled == "childKilled"

rolledSuffix == ".flipped"

\* -------------------------------------------------------- bit helpers
RECURSIVE BitAnd(_, _)
BitAnd(a, b) ==
    IF a = 0 \/ b = 0 THEN 0
    ELSE (a % 2) * (b % 2) + 2 * BitAnd(a \div 2, b \div 2)

BitOr(a, b) == a + b - BitAnd(a, b)

BitAndNot(a, b) == a - BitAnd(a, b)

\* ---------------------------------------------------------- the world
\* A path is the sequence of its tokens; string concatenation is \o.
Cwd == <<"/", "tmp/">>
AbsFile == <<"/", "tmp/", "ff_a">>
RelFile == <<"ff_a">>
OtherFile == <<"/", "tmp/", "other">>

\* filepath.Abs
Abs(p) == IF p[1] = "/" THEN p ELSE Cwd \o p

\* fmt.Sprintf("%s%s", filePath, rolledSuffix)
RolledPath(p) == p \o <<rolledSuffix>>

FsPaths == {AbsFile, RolledPath(AbsFile), OtherFile}

\* inodes
NoFile == "none"
OrigInode == "orig"
RolledInode == "rolled"
OtherInode == "other"
NewInode == "new"
Inodes == {OrigInode, RolledInode, OtherInode, NewInode}

\* the smallest pid preflightCheck accepts, taken as the tracee's
TargetPid == 2
\* the umask processes usually run with, 022
DefaultUmask == 18
FdNums == 3..5
Closed == [inode |-> NoFile, flags |-> 0]
\* the address the kernel gives the tracee's anonymous mapping
ScratchAddr == 28672
\* the buffer the tracee writes from, and how many bytes
BufAddr == 8192
BufLen == 2

NoRegs == [orig_rax |-> 0, rax |-> 0, rdi |-> 0, rsi |-> 0, rdx |-> 0,
           r10 |-> 0, r8 |-> 0, r9 |-> 0, rip |-> -1]
NoStatus == [kind |-> "none", sig |-> 0]
NoExit == -1
NoCall == [nr |-> 0, args |-> <<>>, isNil |-> TRUE, rv |-> 0,
           translated |-> FALSE, ret |-> 0, err |-> 0]

VARIABLES
    impl,       \* "main": src/main.go; "pkg": src/pkg/flip + src/pkg/ptrace
    args,       \* [pid, path]: the command line
    platformOk, \* what uname reports
    world0,     \* the tracee's world when the tool starts: fs, imode, fds
    call,       \* one RemoteSyscall call taken alone: its arguments, results
    pc,         \* the tracer's position
    step,       \* which injected call of the flip is in progress
    exitCode,   \* the tracer's exit code, NoExit while it runs
    trace,      \* the Child: childState, savedRegs, savedSignal, attached
    loc,        \* RunForFile's locals
    reg,        \* RemoteSyscall's local register file
    fs,         \* path -> inode
    imode,      \* inode -> permission bits
    fds,        \* the tracee's descriptor table
    mem,        \* the tracee's scratch page
    umask,      \* the tracee's umask
    regs,       \* the tracee's register file
    tstate,     \* the tracee, as the kernel sees it
    kern,       \* ptrace state: traced, sysgood, pending signals, budget
    wstatus,    \* the notification wait4 will return
    ops,        \* history: the tracer's operations, in order
    tIssued,    \* history: system calls the tracee itself issued
    tDone,      \* history: of those, the ones the kernel performed
    snap0,      \* history: registers at the first entry stop classified
    failed,     \* history: the steps of the flip that failed
    nRet        \* history: how many times RemoteSyscall returned

vars == <<impl, args, platformOk, world0, call, pc, step, exitCode, trace, loc, reg,
          fs, imode, fds, mem, umask, regs, tstate, kern, wstatus,
          ops, tIssued, tDone, snap0, failed, nRet>>

tracerVars == <<pc, step, exitCode, trace, loc, reg>>
inputVars == <<impl, args, platformOk, world0, call>>
worldVars == <<fs, imode, fds, mem, umask>>
histVars == <<ops, snap0, failed, nRet>>

\* ------------------------------------------------------------- Init
Stops == {"entry_stop", "exit_stop", "sig_stop"}

TypeOK ==
    /\ impl \in {"main", "pkg"}
    /\ pc \in {"preflight", "rollover", "setup", "setup_wait", "setup_opts",
              "rs_catch", "rs_catch_wait", "rs_exit_wait", "rs_result",
              "memcpy", "cleanup", "cleanup_wait", "cleanup_detach",
              "returned", "exited"}
    /\ step \in {"none", "fcntl", "mmap", "open", "dup2", "close", "munmap"}
    /\ tstate \in {"user", "in_syscall", "dead"} \cup Stops
    /\ exitCode \in {NoExit, exitOk, exitArgs, exitErr}
    /\ tDone <= tIssued
    /\ regs.rip \in 0..MaxRip

Init ==
    /\ impl \in {"main", "pkg"}
    /\ args \in [pid : {1, TargetPid}, path : {AbsFile, RelFile}]
    /\ platformOk \in BOOLEAN
    /\ pc = "preflight"
    /\ step = "none"
    /\ exitCode = NoExit
    /\ trace = [childState |-> childRunning, savedRegs |-> NoRegs,
                savedSignal |-> 0, attached |-> FALSE]
    /\ loc = [filePath |-> <<>>, origFd |-> 0, mode |-> 0, flag |-> 0,
              childAddr |-> 0, tmpFd |-> 0]
    /\ reg = NoRegs
    /\ \E p \in {NoFile, OrigInode}, r \in {NoFile, RolledInode} :
          fs = [q \in FsPaths |->
                  IF q = AbsFile THEN p
                  ELSE IF q = OtherFile THEN OtherInode ELSE r]
    /\ \E m \in {420, 438} :
          imode = [i \in Inodes |-> IF i = OrigInode THEN m ELSE 420]
    /\ \E d3 \in {OrigInode, OtherInode}, d4 \in {NoFile, OrigInode} :
          /\ d4 = OrigInode => d3 = OrigInode
          /\ fds = [n \in FdNums |->
                     IF n = 3
                     THEN [inode |-> d3, flags |-> BitOr(O_WRONLY, O_APPEND)]
                     ELSE IF n = 4 /\ d4 # NoFile
                          THEN [inode |-> d4, flags |-> O_WRONLY]
                     ELSE Closed]
    /\ world0 = [fs |-> fs, imode |-> imode, fds |-> fds]
    /\ call = NoCall
    /\ mem = [mapped |-> FALSE, data |-> <<>>]
    /\ umask = DefaultUmask
    /\ regs = [NoRegs EXCEPT !.rip = 0]
    /\ tstate = "user"
    /\ kern = [traced |-> FALSE, sysgood |-> FALSE, systrace |-> FALSE,
               pending |-> {}, sent |-> 0, entryRegs |-> NoRegs]
    /\ wstatus = NoStatus
    /\ ops = <<>>
    /\ tIssued = 0
    /\ tDone = 0
    /\ snap0 = NoRegs
    /\ failed = {}
    /\ nRet = 0


\* ------------------------------------------------- the kernel's side
\* The stop signal of a syscall-stop: SIGTRAP | 0x80 under TRACESYSGOOD.
SyscallStopSig == IF kern.sysgood THEN BitOr(SIGTRAP, bit7thSet) ELSE SIGTRAP

\* ptrace requests other than attach need a traced tracee in a ptrace-stop.
PtraceOk == kern.traced /\ tstate \in Stops

\* What a stopped tracee does when it is resumed.
KResume(ts) == IF ts = "entry_stop" THEN "in_syscall" ELSE "user"

\* The kernel's state after the tracer detached or exited.
KDetached == [kern EXCEPT !.traced = FALSE, !.systrace = FALSE,
                          !.sysgood = FALSE, !.pending = {}]

TDetached == IF tstate \in Stops THEN KResume(tstate) ELSE tstate

\* /proc/<pid>/fd/<n>: the path the descriptor's file has now.
LinkTarget(d) ==
    IF \E q \in FsPaths : fs[q] = d.inode
    THEN CHOOSE q \in FsPaths : fs[q] = d.inode
    ELSE <<"(deleted)">>

\* The C string at the scratch address: the tokens before the NUL.
RECURSIVE CStr(_)
CStr(data) ==
    IF data = <<>> \/ Head(data) = "NUL" THEN <<>>
    ELSE <<Head(data)>> \o CStr(Tail(data))

LowestFreeFd == CHOOSE n \in FdNums :
                  /\ fds[n] = Closed
                  /\ \A k \in FdNums : fds[k] = Closed => n <= k

\* The system call the register file r names, performed in the tracee.
\* It yields the value of rax and the tracee's new world.
SysResult(rax, f, i, d, m) == [rax |-> rax, fs |-> f, imode |-> i, fds |-> d, mem |-> m]

SysFail(errno) == SysResult(-errno, fs, imode, fds, mem)

DoFcntl(r) ==
    IF r.rdi \in FdNums /\ fds[r.rdi] # Closed /\ r.rsi = F_GETFL
    THEN SysResult(fds[r.rdi].flags, fs, imode, fds, mem)
    ELSE SysFail(EBADF)

DoMmap(r) ==
    IF BitAnd(r.r10, MAP_ANONYMOUS) # 0 /\ r.rsi > 0 /\ ~mem.mapped
    THEN SysResult(ScratchAddr, fs, imode, fds, [mapped |-> TRUE, data |-> <<>>])
    ELSE SysFail(EINVAL)

DoOpen(r) ==
    LET path == CStr(mem.data) IN
    IF ~(mem.mapped /\ r.rdi = ScratchAddr) THEN SysFail(EFAULT)
    ELSE IF path \notin FsPaths \/ \A n \in FdNums : fds[n] # Closed
         THEN SysFail(EACCES)
    ELSE IF fs[path] # NoFile
         THEN SysResult(LowestFreeFd, fs, imode,
                        [fds EXCEPT ![LowestFreeFd] =
                            [inode |-> fs[path],
                             flags |-> BitAndNot(r.rsi, O_CREATION_MASK)]],
                        mem)
    ELSE IF BitAnd(r.rsi, O_CREAT) = 0 THEN SysFail(EACCES)
    ELSE SysResult(LowestFreeFd,
                   [fs EXCEPT ![path] = NewInode],
                   [imode EXCEPT ![NewInode] = BitAndNot(r.rdx, umask)],
                   [fds EXCEPT ![LowestFreeFd] =
                       [inode |-> NewInode,
                        flags |-> BitAndNot(r.rsi, O_CREATION_MASK)]],
                   mem)

DoDup2(r) ==
    IF r.rdi \in FdNums /\ r.rsi \in FdNums /\ fds[r.rdi] # Closed
    THEN SysResult(r.rsi, fs, imode, [fds EXCEPT ![r.rsi] = fds[r.rdi]], mem)
    ELSE SysFail(EBADF)

DoClose(r) ==
    IF r.rdi \in FdNums /\ fds[r.rdi] # Closed
    THEN SysResult(0, fs, imode, [fds EXCEPT ![r.rdi] = Closed], mem)
    ELSE SysFail(EBADF)

DoMunmap(r) ==
    IF r.rdi = ScratchAddr /\ r.rsi > 0
    THEN SysResult(0, fs, imode, fds, [mapped |-> FALSE, data |-> <<>>])
    ELSE SysFail(EINVAL)

DoWrite(r) ==
    IF r.rdi \in FdNums /\ fds[r.rdi] # Closed
    THEN SysResult(r.rdx, fs, imode, fds, mem)
    ELSE SysFail(EBADF)

\* An error the environment may answer with whatever the arguments are.
EnvErrno(nr) ==
    CASE nr = SYS_MMAP -> ENOMEM
      [] nr = SYS_OPEN -> EACCES
      [] nr = SYS_CLOSE -> EIO
      [] OTHER -> EBADF

DoSyscall(r) ==
    CASE r.orig_rax = SYS_FCNTL -> DoFcntl(r)
      [] r.orig_rax = SYS_MMAP -> DoMmap(r)
      [] r.orig_rax = SYS_OPEN -> DoOpen(r)
      [] r.orig_rax = SYS_DUP2 -> DoDup2(r)
      [] r.orig_rax = SYS_CLOSE -> DoClose(r)
      [] r.orig_rax = SYS_MUNMAP -> DoMunmap(r)
      [] r.orig_rax = SYS_WRITE -> DoWrite(r)
      [] OTHER -> SysFail(ENOSYS)

\* The registers with which the tracee enters its next write(fd, buf, n).
OwnSyscallRegs ==
    [regs EXCEPT !.orig_rax = SYS_WRITE, !.rax = -ENOSYS, !.rdi = 3,
                 !.rsi = BufAddr, !.rdx = BufLen, !.rip = regs.rip + 1]

\* The tracee, running, issues a system call of its own.  Traced with
\* PTRACE_SYSCALL it stops at the entry; otherwise the call is performed.
\* (What the tracee does before the tool renames the file is left out: it
\* is the same as starting the tool that much later.)  A signal that is
\* pending is delivered before the tracee gets to its next system call.
TraceeSyscall ==
    /\ tstate = "user"
    /\ kern.pending = {}
    /\ pc \notin {"preflight", "rollover"}
    /\ regs.rip < MaxRip
    /\ tIssued' = tIssued + 1
    /\ IF kern.traced /\ kern.systrace
       THEN /\ regs' = OwnSyscallRegs
            /\ tstate' = "entry_stop"
            /\ wstatus' = [kind |-> "stopped", sig |-> SyscallStopSig]
            /\ kern' = [kern EXCEPT !.entryRegs = OwnSyscallRegs]
            /\ UNCHANGED <<tDone, worldVars>>
       ELSE LET res == DoSyscall(OwnSyscallRegs) IN
            /\ regs' = [OwnSyscallRegs EXCEPT !.rax = res.rax]
            /\ tDone' = tDone + 1
            /\ UNCHANGED <<tstate, wstatus, kern, worldVars>>
    /\ UNCHANGED <<inputVars, tracerVars, histVars>>

\* The tracee, resumed from an entry stop, performs the system call its
\* registers name now, and stops at the exit if it is still traced.
KernelRunSyscall ==
    /\ tstate = "in_syscall"
    /\ \E envFails \in BOOLEAN :
         LET res == IF envFails THEN SysFail(EnvErrno(regs.orig_rax))
                    ELSE DoSyscall(regs)
             own == regs = kern.entryRegs
         IN /\ ~(own /\ envFails)
            /\ regs' = [regs EXCEPT !.rax = res.rax]
            /\ fs' = res.fs
            /\ imode' = res.imode
            /\ fds' = res.fds
            /\ mem' = res.mem
            /\ tDone' = IF own THEN tDone + 1 ELSE tDone
    /\ IF kern.traced
       THEN /\ tstate' = "exit_stop"
            /\ wstatus' = [kind |-> "stopped", sig |-> SyscallStopSig]
       ELSE /\ tstate' = "user"
            /\ wstatus' = wstatus
    /\ UNCHANGED <<inputVars, tracerVars, histVars, umask, kern, tIssued>>

\* Somebody sends the traced tracee a signal.  A signal is delivered on
\* the way to user mode only, so one that arrives while the tracee is
\* stopped or inside a system call is one that arrives right afterwards.
SignalArrives ==
    /\ kern.traced
    /\ tstate = "user"
    /\ kern.sent < MaxSignals
    /\ SIGUSR1 \notin kern.pending
    /\ kern' = [kern EXCEPT !.pending = @ \cup {SIGUSR1}, !.sent = @ + 1]
    /\ UNCHANGED <<inputVars, tracerVars, histVars, worldVars, regs, tstate,
                   wstatus, tIssued, tDone>>

\* A pending signal reaches the running tracee: signal-delivery-stop.
\* This happens on the way to user mode only, never inside a system call.
SignalDelivery ==
    /\ kern.traced
    /\ tstate = "user"
    /\ \E sig \in kern.pending :
         /\ kern' = [kern EXCEPT !.pending = @ \ {sig}]
         /\ wstatus' = [kind |-> "stopped", sig |-> sig]
    /\ tstate' = "sig_stop"
    /\ UNCHANGED <<inputVars, tracerVars, histVars, worldVars, regs,
                   tIssued, tDone>>

\* The tracee is killed with SIGKILL, in every state, stops included,
\* or exits while it runs.
TraceeDies ==
    /\ tstate # "dead"
    /\ kern.traced \/ pc = "setup"
    /\ tstate' = "dead"
    /\ \E w \in {[kind |-> "exited", sig |-> 0],
                 [kind |-> "signaled", sig |-> SIGKILL]} :
         /\ w.kind = "exited" => tstate \in {"user", "in_syscall"}
         /\ wstatus' = IF kern.traced THEN w ELSE NoStatus
    /\ UNCHANGED <<inputVars, tracerVars, histVars, worldVars, regs, kern,
                   tIssued, tDone>>


\* ------------------------------------------------- the tracer's side
\* One entry of the history of the tracer's operations.
\* ok: whether the kernel carried the operation out; ts, cs, att: the
\* tracee, the controller state and the attached flag when it was issued.
Op(name, nr, a, ok) ==
    [op |-> name, nr |-> nr, args |-> a, ok |-> ok, ts |-> tstate,
     cs |-> trace.childState, att |-> trace.attached]

Log(name, ok) == ops' = Append(ops, Op(name, 0, <<>>, ok))

\* log.Die / os.Exit(code): the tracer is gone, the kernel detaches.
Exit(code) ==
    /\ pc' = "exited"
    /\ exitCode' = code
    /\ kern' = KDetached
    /\ tstate' = TDetached
    /\ wstatus' = NoStatus

\* Mutant of getOpenedFds: the comparison with filePath is missing.
getOpenedFds_Mut(filePath) == {n \in FdNums : fds[n] # Closed}

\* getOpenedFds: the descriptors whose /proc link equals filePath.
getOpenedFds(filePath) ==
    {n \in FdNums : fds[n] # Closed /\ LinkTarget(fds[n]) = filePath}

\* The path the descriptor locator is asked about.
LocatorPath == IF impl = "main" THEN Abs(args.path) ELSE args.path

\* preflightCheck (and, in main.go, the head of startFlip).
PreflightCheck ==
    /\ pc = "preflight"
    /\ LET absPath == Abs(args.path)
           matched == getOpenedFds(LocatorPath)
       IN IF \/ ~platformOk
             \/ fs[absPath] = NoFile
             \/ args.pid <= 1
             \/ Len(absPath) >= pageSize
             \/ matched = {}
          THEN /\ Exit(exitArgs)
               /\ UNCHANGED loc
          ELSE /\ \E fd \in matched :
                    loc' = [loc EXCEPT !.filePath = absPath, !.origFd = fd]
               /\ pc' = "rollover"
               /\ UNCHANGED <<exitCode, kern, tstate, wstatus>>
    /\ UNCHANGED <<inputVars, step, trace, reg, worldVars, regs, histVars,
                   tIssued, tDone>>

\* os.Rename(old, new): fails when old does not exist.
Rename(old, new) ==
    IF fs[old] = NoFile THEN [ok |-> FALSE, fs |-> fs]
    ELSE [ok |-> TRUE, fs |-> [fs EXCEPT ![new] = fs[old], ![old] = NoFile]]

\* Mutant of rollover: the check that <path><suffix> is free is missing.
rollover_Mut(filePath) ==
    IF fs[filePath] = NoFile THEN [ok |-> FALSE, fs |-> fs, mode |-> 0]
    ELSE [ok |-> TRUE,
          fs |-> Rename(filePath, RolledPath(filePath)).fs,
          mode |-> imode[fs[filePath]]]

\* rollover: stat, refuse an existing <path><suffix>, rename.
rollover(filePath) ==
    IF fs[filePath] = NoFile \/ fs[RolledPath(filePath)] # NoFile
    THEN [ok |-> FALSE, fs |-> fs, mode |-> 0]
    ELSE [ok |-> Rename(filePath, RolledPath(filePath)).ok,
          fs |-> Rename(filePath, RolledPath(filePath)).fs,
          mode |-> imode[fs[filePath]]]

Rollover ==
    /\ pc = "rollover"
    /\ LET r == rollover(loc.filePath) IN
       IF r.ok
       THEN /\ fs' = r.fs
            /\ loc' = [loc EXCEPT !.mode = r.mode]
            /\ pc' = "setup"
            /\ Log("rename", TRUE)
            /\ UNCHANGED <<exitCode, kern, tstate, wstatus>>
       ELSE /\ Exit(exitErr)
            /\ UNCHANGED <<fs, loc, ops>>
    /\ UNCHANGED <<inputVars, step, trace, reg, imode, fds, mem, umask, regs,
                   snap0, failed, nRet, tIssued, tDone>>

\* rollback: put <path><suffix> back if it exists and path does not.
\* main.go exits when path exists; pkg/flip only reports it.
rollback(filePath) ==
    IF fs[RolledPath(filePath)] = NoFile THEN [fs |-> fs, exit |-> FALSE]
    ELSE IF fs[filePath] # NoFile THEN [fs |-> fs, exit |-> impl = "main"]
    ELSE [fs |-> Rename(filePath, RolledPath(filePath)).fs, exit |-> FALSE]

\* Setup's switch on childState: which way it goes.
setupBranch(pt) ==
    CASE pt.childState \in {childExited, childKilled} -> "die"
      [] pt.childState = childRunning ->
           IF pt.attached = FALSE THEN "attach" ELSE "stop"
      [] OTHER -> "options"

\* Setup, up to its wait.
Setup ==
    /\ pc = "setup"
    /\ IF setupBranch(trace) = "die"
       THEN /\ Exit(exitErr)
            /\ UNCHANGED ops
       ELSE IF setupBranch(trace) \in {"attach", "stop"}
       THEN IF setupBranch(trace) = "attach"
            THEN IF tstate = "dead"
                 THEN /\ Exit(exitErr)
                      /\ Log("attach", FALSE)
                 ELSE /\ kern' = [kern EXCEPT !.traced = TRUE,
                                              !.pending = @ \cup {SIGSTOP}]
                      /\ pc' = "setup_wait"
                      /\ Log("attach", TRUE)
                      /\ UNCHANGED <<exitCode, tstate, wstatus>>
            ELSE IF tstate = "dead"
                 THEN /\ Exit(exitErr)
                      /\ Log("kill", FALSE)
                 ELSE /\ kern' = [kern EXCEPT !.pending = @ \cup {SIGSTOP}]
                      /\ pc' = "setup_wait"
                      /\ Log("kill", TRUE)
                      /\ UNCHANGED <<exitCode, tstate, wstatus>>
       ELSE /\ pc' = "setup_opts"
            /\ UNCHANGED <<exitCode, kern, tstate, wstatus, ops>>
    /\ UNCHANGED <<inputVars, step, trace, loc, reg, worldVars, regs,
                   snap0, failed, nRet, tIssued, tDone>>

\* Setup, after its wait: PtraceSetOptions; then RunForFile goes on to
\* its first RemoteSyscall.
SetupOptions ==
    /\ pc = "setup_opts"
    /\ Log("setoptions", PtraceOk)
    /\ IF PtraceOk
       THEN /\ kern' = [kern EXCEPT !.sysgood = TRUE]
            /\ pc' = "rs_catch"
            /\ step' = "fcntl"
            /\ UNCHANGED <<exitCode, tstate, wstatus>>
       ELSE /\ Exit(exitErr)
            /\ UNCHANGED step
    /\ UNCHANGED <<inputVars, trace, loc, reg, worldVars, regs,
                   snap0, failed, nRet, tIssued, tDone>>

\* Mutant of waitChild: entry and exit are told apart by comparing the
\* state with syscall-exit instead of syscall-entry.
waitChild_MutToggle(pt, ws) ==
    CASE ws.kind = "exited" ->
           [pt |-> [pt EXCEPT !.childState = childExited], panic |-> FALSE]
      [] ws.kind = "signaled" ->
           [pt |-> [pt EXCEPT !.childState = childKilled],
            panic |-> ws.sig # SIGKILL]
      [] ws.kind = "stopped" ->
           IF ws.sig = BitOr(SIGTRAP, bit7thSet)
           THEN IF pt.childState # childSyscallExit
                THEN [pt |-> [pt EXCEPT !.childState = childSyscallEnter],
                      panic |-> FALSE]
                ELSE [pt |-> [pt EXCEPT !.childState = childSyscallExit],
                      panic |-> FALSE]
           ELSE [pt |-> [pt EXCEPT
                           !.attached = IF pt.attached = FALSE /\ ws.sig = SIGSTOP
                                        THEN TRUE ELSE @,
                           !.savedSignal = ws.sig,
                           !.childState = childSignalDelivery],
                 panic |-> FALSE]
      [] OTHER -> [pt |-> pt, panic |-> TRUE]

\* Mutant of waitChild: a signal stop sets the flag and the saved signal
\* but leaves the state as it was.
waitChild_MutRunning(pt, ws) ==
    CASE ws.kind = "exited" ->
           [pt |-> [pt EXCEPT !.childState = childExited], panic |-> FALSE]
      [] ws.kind = "signaled" ->
           [pt |-> [pt EXCEPT !.childState = childKilled],
            panic |-> ws.sig # SIGKILL]
      [] ws.kind = "stopped" ->
           IF ws.sig = BitOr(SIGTRAP, bit7thSet)
           THEN IF pt.childState # childSyscallEnter
                THEN [pt |-> [pt EXCEPT !.childState = childSyscallEnter],
                      panic |-> FALSE]
                ELSE [pt |-> [pt EXCEPT !.childState = childSyscallExit],
                      panic |-> FALSE]
           ELSE [pt |-> [pt EXCEPT
                           !.attached = IF pt.attached = FALSE /\ ws.sig = SIGSTOP
                                        THEN TRUE ELSE @,
                           !.savedSignal = ws.sig],
                 panic |-> FALSE]
      [] OTHER -> [pt |-> pt, panic |-> TRUE]

\* Mutant of waitChild: every syscall-stop is taken for an entry.
waitChild_Mut(pt, ws) ==
    CASE ws.kind = "exited" ->
           [pt |-> [pt EXCEPT !.childState = childExited], panic |-> FALSE]
      [] ws.kind = "signaled" ->
           [pt |-> [pt EXCEPT !.childState = childKilled],
            panic |-> ws.sig # SIGKILL]
      [] ws.kind = "stopped" ->
           IF ws.sig = BitOr(SIGTRAP, bit7thSet)
           THEN [pt |-> [pt EXCEPT !.childState = childSyscallEnter],
                 panic |-> FALSE]
           ELSE [pt |-> [pt EXCEPT
                           !.attached = IF pt.attached = FALSE /\ ws.sig = SIGSTOP
                                        THEN TRUE ELSE @,
                           !.savedSignal = ws.sig,
                           !.childState = childSignalDelivery],
                 panic |-> FALSE]
      [] OTHER -> [pt |-> pt, panic |-> TRUE]

\* waitChild's classification of a wait status: the Child afterwards, and
\* whether the code panics.
waitChild(pt, ws) ==
    CASE ws.kind = "exited" ->
           [pt |-> [pt EXCEPT !.childState = childExited], panic |-> FALSE]
      [] ws.kind = "signaled" ->
           [pt |-> [pt EXCEPT !.childState = childKilled],
            panic |-> ws.sig # SIGKILL]
      [] ws.kind = "stopped" ->
           IF ws.sig = BitOr(SIGTRAP, bit7thSet)
           THEN IF pt.childState # childSyscallEnter
                THEN [pt |-> [pt EXCEPT !.childState = childSyscallEnter],
                      panic |-> FALSE]
                ELSE [pt |-> [pt EXCEPT !.childState = childSyscallExit],
                      panic |-> FALSE]
           ELSE [pt |-> [pt EXCEPT
                           !.attached = IF pt.attached = FALSE /\ ws.sig = SIGSTOP
                                        THEN TRUE ELSE @,
                           !.savedSignal = ws.sig,
                           !.childState = childSignalDelivery],
                 panic |-> FALSE]
      [] OTHER -> [pt |-> pt, panic |-> TRUE]

AfterWait(p) ==
    CASE p = "setup_wait" -> "setup_opts"
      [] p = "rs_catch_wait" -> "rs_catch"
      [] p = "rs_exit_wait" -> "rs_result"
      [] p = "cleanup_wait" -> "cleanup_detach"

\* A blocking wait4 returns, and waitChild classifies what it reports.
WaitChild ==
    /\ pc \in {"setup_wait", "rs_catch_wait", "rs_exit_wait", "cleanup_wait"}
    /\ wstatus.kind # "none"
    /\ LET w == waitChild(trace, wstatus) IN
       /\ trace' = w.pt
       /\ ops' = Append(ops, Op("wait", wstatus.sig, <<w.pt.childState>>, TRUE))
       /\ snap0' = IF snap0 = NoRegs /\ w.pt.childState = childSyscallEnter
                   THEN regs ELSE snap0
       /\ IF w.panic
          THEN Exit(exitErr)
          ELSE /\ pc' = AfterWait(pc)
               /\ wstatus' = NoStatus
               /\ UNCHANGED <<exitCode, kern, tstate>>
    /\ UNCHANGED <<inputVars, step, loc, reg, worldVars, regs, failed,
                   nRet, tIssued, tDone>>

\* catchSyscall's loop body: not at an entry stop, so resume to the next
\* syscall boundary with signal 0.
CatchSyscallResume ==
    /\ pc = "rs_catch"
    /\ trace.childState # childSyscallEnter
    /\ Log("cont", PtraceOk)
    /\ IF PtraceOk
       THEN /\ tstate' = KResume(tstate)
            /\ kern' = [kern EXCEPT !.systrace = TRUE]
            /\ pc' = "rs_catch_wait"
            /\ UNCHANGED <<exitCode, wstatus>>
       ELSE Exit(exitErr)
    /\ UNCHANGED <<inputVars, step, trace, loc, reg, worldVars, regs,
                   snap0, failed, nRet, tIssued, tDone>>

\* Mutant of StepCall: dup2's arguments are swapped.
StepCall_Mut(st) ==
    CASE st = "fcntl" -> [nr |-> SYS_FCNTL, args |-> <<loc.origFd, F_GETFL, 0>>]
      [] st = "mmap" ->
           [nr |-> SYS_MMAP,
            args |-> <<0, pageSize, BitOr(PROT_READ, PROT_WRITE),
                       BitOr(MAP_ANONYMOUS, MAP_PRIVATE), 0, 0>>]
      [] st = "open" ->
           [nr |-> SYS_OPEN,
            args |-> <<loc.childAddr, BitOr(loc.flag, O_CREAT), loc.mode>>]
      [] st = "dup2" -> [nr |-> SYS_DUP2, args |-> <<loc.origFd, loc.tmpFd>>]
      [] st = "close" -> [nr |-> SYS_CLOSE, args |-> <<loc.tmpFd>>]
      [] st = "munmap" ->
           [nr |-> SYS_MUNMAP, args |-> <<loc.childAddr, pageSize, 0, 0, 0, 0>>]

\* The call RunForFile injects at each step: its number and arguments.
StepCall(st) ==
    CASE st = "fcntl" -> [nr |-> SYS_FCNTL, args |-> <<loc.origFd, F_GETFL, 0>>]
      [] st = "mmap" ->
           [nr |-> SYS_MMAP,
            args |-> <<0, pageSize, BitOr(PROT_READ, PROT_WRITE),
                       BitOr(MAP_ANONYMOUS, MAP_PRIVATE), 0, 0>>]
      [] st = "open" ->
           [nr |-> SYS_OPEN,
            args |-> <<loc.childAddr, BitOr(loc.flag, O_CREAT), loc.mode>>]
      [] st = "dup2" -> [nr |-> SYS_DUP2, args |-> <<loc.tmpFd, loc.origFd>>]
      [] st = "close" -> [nr |-> SYS_CLOSE, args |-> <<loc.tmpFd>>]
      [] st = "munmap" ->
           [nr |-> SYS_MUNMAP, args |-> <<loc.childAddr, pageSize, 0, 0, 0, 0>>]

\* RemoteSyscall's register file for the injected call: the snapshot with
\* the syscall number and the first Len(a) argument registers replaced.
InjectRegs(saved, nr, a) ==
    [saved EXCEPT !.orig_rax = nr,
                  !.rdi = IF Len(a) >= 1 THEN a[1] ELSE @,
                  !.rsi = IF Len(a) >= 2 THEN a[2] ELSE @,
                  !.rdx = IF Len(a) >= 3 THEN a[3] ELSE @,
                  !.r10 = IF Len(a) >= 4 THEN a[4] ELSE @,
                  !.r8 = IF Len(a) >= 5 THEN a[5] ELSE @,
                  !.r9 = IF Len(a) >= 6 THEN a[6] ELSE @]

\* RemoteSyscall's switch on len(args), entered when args is not nil: the
\* cases are 6 down to 1, everything else is the default and panics.
TooManyArgs(isNil, a) == ~isNil /\ Len(a) \notin 1..6

\* Mutant of catchSyscall: the snapshot is taken at every entry stop.
catchSyscall_Mut(pt) == [pt EXCEPT !.savedRegs = regs]

\* catchSyscall after its loop: the snapshot is taken once, when there is
\* none yet.
catchSyscall(pt) ==
    IF pt.savedRegs # NoRegs THEN pt ELSE [pt EXCEPT !.savedRegs = regs]

\* RemoteSyscall at an entry stop: snapshot, write the injected registers,
\* resume.  More than six arguments panic before anything is written.
Hijack ==
    /\ pc = "rs_catch"
    /\ trace.childState = childSyscallEnter
    /\ LET inj == StepCall(step)
           pt == catchSyscall(trace)
           r == InjectRegs(pt.savedRegs, inj.nr, inj.args)
           first == trace.savedRegs = NoRegs
       IN IF PtraceOk /\ ~TooManyArgs(FALSE, inj.args)
          THEN /\ trace' = pt
               /\ reg' = r
               /\ regs' = r
               /\ tstate' = KResume(tstate)
               /\ pc' = "rs_exit_wait"
               /\ ops' = ops \o (IF first
                                  THEN <<Op("getregs", 0, <<>>, TRUE)>>
                                  ELSE <<>>)
                              \o <<Op("inject", inj.nr, inj.args, TRUE),
                                   Op("cont", 0, <<>>, TRUE)>>
               /\ UNCHANGED <<exitCode, kern, wstatus>>
          ELSE /\ Exit(exitErr)
               /\ ops' = Append(ops, IF first
                                     THEN Op("getregs", 0, <<>>, FALSE)
                                     ELSE Op("inject", inj.nr, inj.args, FALSE))
               /\ UNCHANGED <<trace, reg, regs>>
    /\ UNCHANGED <<inputVars, step, loc, worldVars, snap0, failed, nRet,
                   tIssued, tDone>>

\* Unsigned comparison of two 64-bit values in two's complement.
UGt(a, b) == IF (a < 0) = (b < 0) THEN a > b ELSE a < 0

\* RemoteSyscall's translation of the result register.
Translate(rv) ==
    IF UGt(rv, maxErrnoValue) THEN [ret |-> -1, err |-> -rv]
    ELSE [ret |-> rv, err |-> 0]

\* resumeSyscall: the register file written back after the injected call.
resumeSyscall == trace.savedRegs

\* Mutant of RunForFile: after dup2 the transient descriptor is not closed.
RunForFile_MutNoClose(ret, err) ==
    LET rb == rollback(loc.filePath)
        go(st, p, l) == [die |-> FALSE, rb |-> FALSE, fs |-> fs,
                         step |-> st, pc |-> p, loc |-> l]
        sweepUp(rolled) ==
            [die |-> rolled /\ rb.exit, rb |-> rolled,
             fs |-> IF rolled THEN rb.fs ELSE fs,
             step |-> "munmap", pc |-> "rs_catch", loc |-> loc]
        die == [die |-> TRUE, rb |-> TRUE, fs |-> rb.fs,
                step |-> step, pc |-> pc, loc |-> loc]
    IN CASE step = "fcntl" ->
              IF err # 0 THEN die
              ELSE go("mmap", "rs_catch", [loc EXCEPT !.flag = ret])
         [] step = "mmap" ->
              IF err # 0 THEN die
              ELSE go("mmap", "memcpy", [loc EXCEPT !.childAddr = ret])
         [] step = "open" ->
              IF err # 0 THEN sweepUp(TRUE)
              ELSE go("dup2", "rs_catch", [loc EXCEPT !.tmpFd = ret])
         [] step = "dup2" -> sweepUp(FALSE)
         [] step = "close" -> sweepUp(FALSE)
         [] step = "munmap" -> go("munmap", "cleanup", loc)

\* Mutant of RunForFile: a failed open goes past sweepUp to Cleanup.
RunForFile_Mut(ret, err) ==
    LET rb == rollback(loc.filePath)
        go(st, p, l) == [die |-> FALSE, rb |-> FALSE, fs |-> fs,
                         step |-> st, pc |-> p, loc |-> l]
        sweepUp(rolled) ==
            [die |-> rolled /\ rb.exit, rb |-> rolled,
             fs |-> IF rolled THEN rb.fs ELSE fs,
             step |-> "munmap", pc |-> "rs_catch", loc |-> loc]
        die == [die |-> TRUE, rb |-> TRUE, fs |-> rb.fs,
                step |-> step, pc |-> pc, loc |-> loc]
    IN CASE step = "fcntl" ->
              IF err # 0 THEN die
              ELSE go("mmap", "rs_catch", [loc EXCEPT !.flag = ret])
         [] step = "mmap" ->
              IF err # 0 THEN die
              ELSE go("mmap", "memcpy", [loc EXCEPT !.childAddr = ret])
         [] step = "open" ->
              IF err # 0 THEN [sweepUp(TRUE) EXCEPT !.pc = "cleanup"]
              ELSE go("dup2", "rs_catch", [loc EXCEPT !.tmpFd = ret])
         [] step = "dup2" ->
              IF err # 0 THEN sweepUp(FALSE) ELSE go("close", "rs_catch", loc)
         [] step = "close" -> sweepUp(FALSE)
         [] step = "munmap" -> go("munmap", "cleanup", loc)

\* RunForFile after the RemoteSyscall of `step` returned (ret, err): what
\* it does to the file system and where it goes next.
RunForFile(ret, err) ==
    LET rb == rollback(loc.filePath)
        go(st, p, l) == [die |-> FALSE, rb |-> FALSE, fs |-> fs,
                         step |-> st, pc |-> p, loc |-> l]
        sweepUp(rolled) ==
            [die |-> rolled /\ rb.exit, rb |-> rolled,
             fs |-> IF rolled THEN rb.fs ELSE fs,
             step |-> "munmap", pc |-> "rs_catch", loc |-> loc]
        die == [die |-> TRUE, rb |-> TRUE, fs |-> rb.fs,
                step |-> step, pc |-> pc, loc |-> loc]
    IN CASE step = "fcntl" ->
              IF err # 0 THEN die
              ELSE go("mmap", "rs_catch", [loc EXCEPT !.flag = ret])
         [] step = "mmap" ->
              IF err # 0 THEN die
              ELSE go("mmap", "memcpy", [loc EXCEPT !.childAddr = ret])
         [] step = "open" ->
              IF err # 0 THEN sweepUp(TRUE)
              ELSE go("dup2", "rs_catch", [loc EXCEPT !.tmpFd = ret])
         [] step = "dup2" ->
              IF err # 0 THEN sweepUp(FALSE) ELSE go("close", "rs_catch", loc)
         [] step = "close" -> sweepUp(FALSE)
         [] step = "munmap" -> go("munmap", "cleanup", loc)

\* RemoteSyscall after the wait that follows the injected call: read the
\* result, restore the snapshot, translate the result, return.
RemoteSyscallResult ==
    /\ pc = "rs_result"
    /\ IF PtraceOk
       THEN LET res == Translate(regs.rax)
                nx == RunForFile(res.ret, res.err)
            IN /\ regs' = resumeSyscall
               /\ nRet' = nRet + 1
               /\ failed' = IF res.err # 0 THEN failed \cup {step} ELSE failed
               /\ ops' = ops \o <<Op("getregs", 0, <<>>, TRUE),
                                  Op("setregs", 0, <<>>, TRUE),
                                  Op("return", StepCall(step).nr,
                                     <<res.ret, res.err>>, res.err = 0)>>
                              \o (IF nx.rb
                                  THEN <<Op("rollback", 0, <<>>, nx.fs # fs)>>
                                  ELSE <<>>)
               /\ fs' = nx.fs
               /\ loc' = nx.loc
               /\ step' = nx.step
               /\ IF nx.die
                  THEN Exit(exitErr)
                  ELSE /\ pc' = nx.pc
                       /\ UNCHANGED <<exitCode, kern, tstate, wstatus>>
       ELSE /\ Exit(exitErr)
            /\ ops' = Append(ops, Op("getregs", 0, <<>>, FALSE))
            /\ UNCHANGED <<regs, nRet, failed, fs, loc, step>>
    /\ UNCHANGED <<inputVars, trace, reg, imode, fds, mem, umask, snap0,
                   tIssued, tDone>>

\* RemoteMemcp: PtracePokeData, then the count check.
RemoteMemcp(src, addr, size, envOk) ==
    IF envOk /\ PtraceOk /\ mem.mapped /\ addr = ScratchAddr
    THEN [err |-> IF Len(src) # size THEN EINVAL ELSE 0,
          mem |-> [mem EXCEPT !.data = src]]
    ELSE [err |-> EIO, mem |-> mem]

\* RunForFile writes the path and its NUL into the scratch page.
WritePath ==
    /\ pc = "memcpy"
    /\ \E envOk \in BOOLEAN :
         LET filePathBytes == Append(loc.filePath, "NUL")
             m == RemoteMemcp(filePathBytes, loc.childAddr,
                              Len(loc.filePath) + 1, envOk)
             rb == rollback(loc.filePath)
         IN /\ mem' = m.mem
            /\ IF m.err = 0
               THEN /\ step' = "open"
                    /\ pc' = "rs_catch"
                    /\ ops' = Append(ops, Op("poke", 0, filePathBytes, TRUE))
                    /\ UNCHANGED <<fs, failed, exitCode, kern, tstate, wstatus>>
               ELSE /\ step' = "munmap"
                    /\ failed' = failed \cup {"memcpy"}
                    /\ fs' = rb.fs
                    /\ ops' = ops \o <<Op("poke", 0, filePathBytes, FALSE),
                                       Op("rollback", 0, <<>>, rb.fs # fs)>>
                    /\ IF rb.exit
                       THEN Exit(exitErr)
                       ELSE /\ pc' = "rs_catch"
                            /\ UNCHANGED <<exitCode, kern, tstate, wstatus>>
    /\ UNCHANGED <<inputVars, trace, loc, reg, imode, fds, umask, regs,
                   snap0, nRet, tIssued, tDone>>

\* RunForFile is over: main.go exits with exitOk, pkg/flip returns.
Finished == IF impl = "main" THEN "exited" ELSE "returned"

\* Mutant of cleanupBranch: every tracee that is attached and not
\* terminal is sent the stop signal first.
cleanupBranch_Mut(pt) ==
    CASE pt.childState \in {childExited, childKilled} -> "die"
      [] pt.childState = childRunning /\ pt.attached = FALSE -> "return"
      [] OTHER -> IF pt.attached THEN "stop" ELSE "detach"

\* Cleanup's switch on childState: which way it goes.
cleanupBranch(pt) ==
    CASE pt.childState \in {childExited, childKilled} -> "die"
      [] pt.childState = childRunning ->
           IF pt.attached = FALSE THEN "return" ELSE "stop"
      [] OTHER -> "detach"

\* Cleanup: stop the tracee if it runs, then detach.
Cleanup ==
    /\ pc \in {"cleanup", "cleanup_detach"}
    /\ IF pc = "cleanup" /\ cleanupBranch(trace) = "die"
       THEN /\ Exit(exitErr)
            /\ UNCHANGED <<trace, ops>>
       ELSE IF pc = "cleanup" /\ cleanupBranch(trace) \in {"return", "stop"}
       THEN IF cleanupBranch(trace) = "return"
            THEN /\ pc' = Finished
                 /\ exitCode' = IF impl = "main" THEN exitOk ELSE exitCode
                 /\ UNCHANGED <<trace, ops, kern, tstate, wstatus>>
            ELSE IF tstate = "dead"
                 THEN /\ Exit(exitErr)
                      /\ Log("kill", FALSE)
                      /\ UNCHANGED trace
                 ELSE /\ kern' = [kern EXCEPT !.pending = @ \cup {SIGSTOP}]
                      /\ pc' = "cleanup_wait"
                      /\ Log("kill", TRUE)
                      /\ UNCHANGED <<trace, exitCode, tstate, wstatus>>
       ELSE /\ Log("detach", PtraceOk)
            /\ IF PtraceOk
               THEN /\ kern' = KDetached
                    /\ tstate' = TDetached
                    /\ wstatus' = NoStatus
                    /\ trace' = [trace EXCEPT !.attached = FALSE]
                    /\ pc' = Finished
                    /\ exitCode' = IF impl = "main" THEN exitOk ELSE exitCode
               ELSE /\ Exit(exitErr)
                    /\ UNCHANGED trace
    /\ UNCHANGED <<inputVars, step, loc, reg, worldVars, regs, snap0, failed,
                   nRet, tIssued, tDone>>

Next ==
    \/ PreflightCheck
    \/ Rollover
    \/ Setup
    \/ WaitChild
    \/ SetupOptions
    \/ CatchSyscallResume
    \/ Hijack
    \/ RemoteSyscallResult
    \/ WritePath
    \/ Cleanup
    \/ TraceeSyscall
    \/ KernelRunSyscall
    \/ SignalArrives
    \/ SignalDelivery
    \/ TraceeDies

Spec == Init /\ [][Next]_vars

\* ------------------------------------------- RemoteSyscall taken alone
\* RemoteSyscall(nr, args...) called at a syscall-entry stop with a
\* snapshot in place, for every argument list and every result register:
\* the register file it writes, and the translation of the result.
ArgValues == {F_GETFL, pageSize}

ArgSeqs == UNION {[1..n -> ArgValues] : n \in 0..MaxArgs}

RvInputs ==
    ((maxErrnoValue - ErrnoSpan)..(maxErrnoValue + ErrnoSpan))
        \cup ((0 - ErrnoSpan)..ErrnoSpan)

EntrySnapshot ==
    [orig_rax |-> SYS_WRITE, rax |-> -ENOSYS, rdi |-> 4, rsi |-> BufAddr,
     rdx |-> BufLen, r10 |-> 21, r8 |-> 22, r9 |-> 23, rip |-> 1]

InitRemoteSyscall ==
    /\ impl = "pkg"
    /\ args = [pid |-> TargetPid, path |-> AbsFile]
    /\ platformOk = TRUE
    /\ fs = [q \in FsPaths |->
               IF q = AbsFile THEN NoFile
               ELSE IF q = OtherFile THEN OtherInode ELSE OrigInode]
    /\ imode = [i \in Inodes |-> 420]
    /\ fds = [n \in FdNums |->
                IF n = 3 THEN [inode |-> OrigInode,
                               flags |-> BitOr(O_WRONLY, O_APPEND)]
                ELSE Closed]
    /\ world0 = [fs |-> fs, imode |-> imode, fds |-> fds]
    /\ \E a \in ArgSeqs, nil \in BOOLEAN, rv \in RvInputs :
          /\ nil => a = <<>>
          /\ call = [NoCall EXCEPT !.nr = SYS_CLOSE, !.args = a,
                                   !.isNil = nil, !.rv = rv]
    /\ pc = "rs_catch"
    /\ step = "none"
    /\ exitCode = NoExit
    /\ trace = [childState |-> childSyscallEnter, savedRegs |-> EntrySnapshot,
                savedSignal |-> SIGSTOP, attached |-> TRUE]
    /\ loc = [filePath |-> AbsFile, origFd |-> 3, mode |-> 420, flag |-> 0,
              childAddr |-> 0, tmpFd |-> 0]
    /\ reg = NoRegs
    /\ mem = [mapped |-> FALSE, data |-> <<>>]
    /\ umask = DefaultUmask
    /\ regs = EntrySnapshot
    /\ tstate = "entry_stop"
    /\ kern = [traced |-> TRUE, sysgood |-> TRUE, systrace |-> TRUE,
               pending |-> {}, sent |-> 0, entryRegs |-> EntrySnapshot]
    /\ wstatus = NoStatus
    /\ ops = <<>>
    /\ tIssued = 1
    /\ tDone = 0
    /\ snap0 = EntrySnapshot
    /\ failed = {}
    /\ nRet = 0

\* RemoteSyscall from the copy of the snapshot to PtraceSetRegs: the
\* switch on len(args) panics, or the register file is written.
RemoteSyscallArgs ==
    /\ pc = "rs_catch"
    /\ step = "none"
    /\ IF TooManyArgs(call.isNil, call.args)
       THEN /\ Exit(exitErr)
            /\ UNCHANGED <<reg, regs, ops>>
       ELSE /\ reg' = InjectRegs(trace.savedRegs, call.nr, call.args)
            /\ regs' = reg'
            /\ ops' = Append(ops, Op("inject", call.nr, call.args, TRUE))
            /\ pc' = "rs_result"
            /\ UNCHANGED <<exitCode, kern, tstate, wstatus>>
    /\ UNCHANGED <<inputVars, step, trace, loc, worldVars, snap0, failed,
                   nRet, tIssued, tDone>>

\* RemoteSyscall from rv := reg.Rax to its return.
RemoteSyscallTranslate ==
    /\ pc = "rs_result"
    /\ step = "none"
    /\ LET t == Translate(call.rv)
       IN call' = [call EXCEPT !.translated = TRUE, !.ret = t.ret,
                               !.err = t.err]
    /\ regs' = resumeSyscall
    /\ pc' = "returned"
    /\ UNCHANGED <<impl, args, platformOk, world0, step, exitCode, trace, loc,
                   reg, worldVars, tstate, kern, wstatus, histVars, tIssued,
                   tDone>>

NextRemoteSyscall == RemoteSyscallArgs \/ RemoteSyscallTranslate

SpecRemoteSyscall == InitRemoteSyscall /\ [][NextRemoteSyscall]_vars

\* ------------------------------------------------------- properties
ToolOver == pc \in {"exited", "returned"}

\* The operations of the history with a given name that were carried out.
Done(name) == {i \in DOMAIN ops : ops[i].op = name /\ ops[i].ok}

\* Every injected call returned without an error and the path was written.
FlipSucceeded == ToolOver /\ nRet = 6 /\ failed = {}

\* C1: whenever the tracee is outside a system call, every system call it
\* issued itself has been performed with its own number and arguments; in
\* particular the one RemoteSyscall hijacked is performed afterwards.
C1_OwnSyscallsPerformed ==
    tstate \in {"user", "sig_stop"} => tDone = tIssued

\* C2: each time RemoteSyscall returns, with or without an error, the
\* tracee's register file equals the registers of the first syscall-entry
\* stop the session classified.
C2_RegsRestored ==
    [][nRet' = nRet + 1 => (snap0 # NoRegs /\ regs' = snap0)]_vars

\* C2's case: after a second or later injection, one of which failed, the
\* tracee is still at the exit stop with the first snapshot's registers.
C2_Witness ==
    /\ nRet >= 2
    /\ failed # {}
    /\ tstate = "exit_stop"
    /\ regs = snap0
    /\ regs.rip < MaxRip

\* The syscall-stop classifications of the session, in order.
Classes ==
    SelectSeq(ops, LAMBDA o : /\ o.op = "wait"
                              /\ o.args[1] \in {childSyscallEnter,
                                                childSyscallExit})

\* C3: the syscall-entry and syscall-exit classifications alternate,
\* starting with an entry, whatever signal-delivery stops come between.
C3_Alternate ==
    \A i \in 1..Len(Classes) :
        Classes[i].args[1] = IF i % 2 = 1 THEN childSyscallEnter
                             ELSE childSyscallExit

\* C3's case: a signal-delivery stop was classified between an exit and
\* the entry after it.
C3_Witness ==
    \E i, j, k \in DOMAIN ops :
        /\ i < j /\ j < k
        /\ ops[i].op = "wait" /\ ops[i].args[1] = childSyscallExit
        /\ ops[j].op = "wait" /\ ops[j].args[1] = childSignalDelivery
        /\ ops[k].op = "wait" /\ ops[k].args[1] = childSyscallEnter

MmapReturned ==
    {i \in DOMAIN ops : ops[i].op = "return" /\ ops[i].nr = SYS_MMAP /\ ops[i].ok}

MunmapInjected ==
    {i \in DOMAIN ops : ops[i].op = "inject" /\ ops[i].nr = SYS_MUNMAP}

\* C4: when the tracee is detached after an injected mmap succeeded,
\* exactly one munmap was injected before the detach, after the mmap, of
\* the address mmap returned and one page.
C4_OneMunmap ==
    \A m \in MmapReturned, d \in Done("detach") :
        /\ Cardinality({u \in MunmapInjected : m < u /\ u < d}) = 1
        /\ \A u \in MunmapInjected :
              /\ m < u /\ u < d
              /\ ops[u].args[1] = ops[m].args[1]
              /\ ops[u].args[2] = pageSize

\* C4's case: mmap succeeded, the remote memcpy failed, and the tracee
\* was detached.
C4_Witness ==
    /\ MmapReturned # {}
    /\ "memcpy" \in failed
    /\ Done("detach") # {}

\* C5: when the tool is over and a step before dup2 failed after the
\* rename, the named path exists.
C5_NamedFileExists ==
    (/\ ToolOver
     /\ Done("rename") # {}
     /\ failed \cap {"fcntl", "mmap", "memcpy", "open"} # {})
    => fs[loc.filePath] # NoFile

\* C6: after a successful flip the original descriptor number is open on
\* the fresh file at the input path, with the flags fcntl read, which are
\* the flags it had before; the former file is at <path><suffix>.
C6_DescriptorFlipped ==
    FlipSucceeded =>
        /\ fds[loc.origFd] # Closed
        /\ fds[loc.origFd].inode = NewInode
        /\ fs[loc.filePath] = NewInode
        /\ fds[loc.origFd].flags = loc.flag
        /\ loc.flag = world0.fds[loc.origFd].flags
        /\ world0.fds[loc.origFd].inode = world0.fs[loc.filePath]
        /\ fs[RolledPath(loc.filePath)] = world0.fs[loc.filePath]

\* C6's case: a flip of the second of two descriptors on the file
\* succeeded and the tracee was detached.
C6_Witness ==
    /\ FlipSucceeded
    /\ loc.origFd = 4
    /\ Done("detach") # {}

RolledAtStart == world0.fs[RolledPath(Abs(args.path))] # NoFile

PreflightPassed == loc.filePath # <<>>

\* C7 as claimed: when <path><suffix> exists at the start, the run exits
\* with code 2, having renamed nothing and never touched the tracee.
C7_Original ==
    (ToolOver /\ RolledAtStart) => (exitCode = exitErr /\ ops = <<>>)

\* C7 as amended: when <path><suffix> exists at the start, the run renames
\* nothing and never touches the tracee; it exits with code 2 when the
\* preflight checks pass and with code 1 when one of them fails.
C7_Amended ==
    (ToolOver /\ RolledAtStart) =>
        /\ ops = <<>>
        /\ exitCode = IF PreflightPassed THEN exitErr ELSE exitArgs

\* C7's case: the preflight checks passed and rollover refused.
C7_Witness ==
    /\ ToolOver
    /\ RolledAtStart
    /\ PreflightPassed
    /\ exitCode = exitErr

NoHolderAtStart ==
    \A n \in FdNums :
        \/ world0.fds[n] = Closed
        \/ world0.fs[Abs(args.path)] = NoFile
        \/ world0.fds[n].inode # world0.fs[Abs(args.path)]

\* C8: when no descriptor of the tracee refers to the requested path, the
\* run exits with code 1, having renamed nothing and never attached.
C8_NonHolder ==
    (ToolOver /\ NoHolderAtStart) => (exitCode = exitArgs /\ ops = <<>>)

\* C8's case: platform, pid and path are fine, and only the descriptor is
\* missing.
C8_Witness ==
    /\ ToolOver
    /\ NoHolderAtStart
    /\ platformOk
    /\ args.pid > 1
    /\ world0.fs[Abs(args.path)] # NoFile
    /\ exitCode = exitArgs

\* C9: the tool exits with code 0 only when the flip succeeded.
C9_ExitZeroOnlyOnSuccess ==
    (pc = "exited" /\ exitCode = exitOk) => FlipSucceeded

\* C10: after a successful flip the file at the input path is a new one
\* whose permission bits are those of the file that was there before.
C10_ModePreserved ==
    FlipSucceeded =>
        /\ fs[loc.filePath] = NewInode
        /\ imode[NewInode] = world0.imode[world0.fs[loc.filePath]]

\* C11: each time RemoteSyscall reads the result and restores the snapshot
\* (which is each time it returns), the controller state is syscall-exit,
\* the tracee is at the syscall-exit stop of the injected call, and the
\* state is still syscall-exit when RemoteSyscall has returned.
C11_PairedExit ==
    [][nRet' = nRet + 1 =>
          /\ trace.childState = childSyscallExit
          /\ tstate = "exit_stop"
          /\ regs.orig_rax = reg.orig_rax
          /\ trace'.childState = childSyscallExit]_vars

\* C11's case: RemoteSyscall returned in a session in which a signal was
\* sent to the tracee, and the controller state is syscall-exit.
C11_Witness ==
    /\ nRet >= 1
    /\ pc = "memcpy"
    /\ kern.sent > 0
    /\ trace.childState = childSyscallExit

\* The kernel tracing primitives, by the names the history gives them
\* ("inject" is the set-regs of the injected call).
TracingPrimitives ==
    {"attach", "detach", "wait", "getregs", "setregs", "inject", "poke",
     "cont", "setoptions"}

\* C12: when a tracing primitive failed, the tracer has exited with code 2
\* and has done nothing to the tracee since (a rollback of the rename on
\* disk apart).
C12_PrimitiveErrorFatal ==
    \A i \in DOMAIN ops :
        (ops[i].op \in TracingPrimitives /\ ~ops[i].ok) =>
            /\ pc = "exited"
            /\ exitCode = exitErr
            /\ \A j \in DOMAIN ops : j > i => ops[j].op = "rollback"

\* C13: when the tool is over and fcntl, mmap, the remote memcpy, open or
\* dup2 failed, rollback was called.
C13_RollbackCalled ==
    (ToolOver /\ failed \cap {"fcntl", "mmap", "memcpy", "open", "dup2"} # {})
    => \E i \in DOMAIN ops : ops[i].op = "rollback"

\* C14: rollback(path), called when <path><suffix> exists and path does
\* not, moves the file at <path><suffix> back to path; called in any other
\* state of the file system it changes nothing.
C14_RollbackRestores ==
    LET rolled == RolledPath(AbsFile)
        after == rollback(AbsFile).fs
    IN IF fs[rolled] # NoFile /\ fs[AbsFile] = NoFile
       THEN after = [fs EXCEPT ![AbsFile] = fs[rolled], ![rolled] = NoFile]
       ELSE after = fs

\* The translation C15 describes: an error for every rv above 2^64 - 4096,
\* which is -4096 as a signed value.
ClaimedTranslate(rv) ==
    IF UGt(rv, maxErrnoValue - 1) THEN [ret |-> -1, err |-> 0 - rv]
    ELSE [ret |-> rv, err |-> 0]

\* C15: what RemoteSyscall returns for the result register rv is -1 and
\* the error number 2^64 - rv when rv is above 2^64 - 4096, and rv as a
\* signed value with no error otherwise.
C15_Translation ==
    call.translated =>
        /\ call.ret = ClaimedTranslate(call.rv).ret
        /\ call.err = ClaimedTranslate(call.rv).err

\* The requests that need a stopped tracee: get-regs, set-regs ("inject"
\* is the set-regs of the injected call) and poke.
StoppedRequests == {"getregs", "setregs", "inject", "poke"}

\* C16: get-regs, set-regs and poke are issued only when the state the
\* controller last observed is signal-delivery, syscall-entry or
\* syscall-exit.
C16_OnlyWhenStopped ==
    \A i \in DOMAIN ops :
        ops[i].op \in StoppedRequests =>
            ops[i].cs \in {childSignalDelivery, childSyscallEnter,
                           childSyscallExit}

\* C17: a Child holds a register snapshot only while its attached flag is
\* true; in particular none is left after Cleanup has detached.
C17_SnapshotOnlyAttached ==
    trace.savedRegs # NoRegs => trace.attached

StopStates == {childSignalDelivery, childSyscallEnter, childSyscallExit}

\* C18 as claimed: a detach that Cleanup issues on an attached tracee comes
\* right after a stop signal and the wait for its stop, and leaves the
\* attached flag false.
C18_Original ==
    \A d \in DOMAIN ops :
        (ops[d].op = "detach" /\ ops[d].att) =>
            /\ d > 2
            /\ ops[d - 2].op = "kill"
            /\ ops[d - 1].op = "wait"
            /\ (ops[d].ok /\ d = Len(ops)) => ~trace.attached

\* C18 as amended: RunForFile calls Cleanup only on a tracee last observed
\* in a stop, and Cleanup then issues the detach directly: no stop signal
\* is ever sent and no wait precedes the detach.  After a detach that
\* succeeded the attached flag is false and the tool is over; a detach that
\* failed is fatal, with exit code 2.
C18_Amended ==
    /\ pc \in {"cleanup", "cleanup_wait", "cleanup_detach"} =>
          /\ pc = "cleanup"
          /\ trace.childState \in StopStates
    /\ \A i \in DOMAIN ops : ops[i].op # "kill"
    /\ \A d \in DOMAIN ops :
          ops[d].op = "detach" =>
              /\ d = Len(ops)
              /\ d > 1
              /\ ops[d].cs \in StopStates
              /\ ops[d - 1].op \in {"return", "rollback"}
              /\ IF ops[d].ok
                 THEN ~trace.attached /\ pc = Finished
                 ELSE pc = "exited" /\ exitCode = exitErr

\* C18's case: Cleanup detached an attached tracee after a whole flip.
C18_Witness ==
    /\ nRet = 6
    /\ pc = Finished
    /\ ~trace.attached
    /\ ops[Len(ops)].op = "detach"
    /\ ops[Len(ops)].ok
    /\ ops[Len(ops)].att

\* C19: each time waitChild classifies a stop whose signal is not the
\* syscall-trap marker, the state becomes signal-delivery, the signal is
\* recorded as the saved signal and the attached flag is true afterwards;
\* and the attached flag is true when Setup returns.
C19_AttachedAfterSignalStop ==
    [][/\ (/\ ops' # ops
           /\ ops'[Len(ops')].op = "wait"
           /\ wstatus.kind = "stopped"
           /\ wstatus.sig # BitOr(SIGTRAP, bit7thSet))
          => /\ trace'.childState = childSignalDelivery
             /\ trace'.savedSignal = wstatus.sig
             /\ trace'.attached
       /\ (pc = "setup_opts" /\ pc' = "rs_catch") => trace'.attached]_vars

\* The register file C20 describes for a call with the arguments a: the
\* snapshot, with the syscall number and the first Len(a) of rdi, rsi, rdx,
\* r10, r8, r9 replaced.
ClaimedRegs(saved, nr, a) ==
    [orig_rax |-> nr,
     rax |-> saved.rax,
     rdi |-> IF Len(a) >= 1 THEN a[1] ELSE saved.rdi,
     rsi |-> IF Len(a) >= 2 THEN a[2] ELSE saved.rsi,
     rdx |-> IF Len(a) >= 3 THEN a[3] ELSE saved.rdx,
     r10 |-> IF Len(a) >= 4 THEN a[4] ELSE saved.r10,
     r8 |-> IF Len(a) >= 5 THEN a[5] ELSE saved.r8,
     r9 |-> IF Len(a) >= 6 THEN a[6] ELSE saved.r9,
     rip |-> saved.rip]

\* C20: once RemoteSyscall is past its switch on the arguments, a call with
\* at most six arguments has written the register file described above to
\* the tracee, and a call with more than six has written nothing and the
\* tracer is gone with exit code 2.
C20_InjectedRegs ==
    (pc # "rs_catch" /\ ~call.translated) =>
        IF Len(call.args) <= 6
        THEN /\ pc = "rs_result"
             /\ regs = ClaimedRegs(trace.savedRegs, call.nr, call.args)
        ELSE /\ pc = "exited"
             /\ exitCode = exitErr
             /\ regs = trace.savedRegs
             /\ ops = <<>>

\* The operations C21 lists, as the history recorded them: name, syscall
\* number and arguments (for munmap, the address and the length).
ListedOps ==
    LET sel == SelectSeq(ops, LAMBDA o :
                   o.op \in {"rename", "attach", "inject", "poke", "detach"})
    IN [i \in 1..Len(sel) |->
          [op |-> sel[i].op, nr |-> sel[i].nr,
           args |-> IF sel[i].op = "inject" /\ sel[i].nr = SYS_MUNMAP
                    THEN SubSeq(sel[i].args, 1, 2) ELSE sel[i].args]]

\* What an injected call returned, 0 if it did not return.
Returned(nr) ==
    IF \E i \in DOMAIN ops : ops[i].op = "return" /\ ops[i].nr = nr
    THEN ops[CHOOSE i \in DOMAIN ops :
                 ops[i].op = "return" /\ ops[i].nr = nr].args[1]
    ELSE 0

\* The sequence C21 lists, with mmapFd the descriptor argument of mmap.
FlipSequence(mmapFd) ==
    LET plain(name) == [op |-> name, nr |-> 0, args |-> <<>>]
        inj(nr, a) == [op |-> "inject", nr |-> nr, args |-> a]
        addr == Returned(SYS_MMAP)
        newFd == Returned(SYS_OPEN)
        origFlags == world0.fds[loc.origFd].flags
        origMode == world0.imode[world0.fs[loc.filePath]]
    IN << plain("rename"),
          plain("attach"),
          inj(SYS_FCNTL, <<loc.origFd, F_GETFL, 0>>),
          inj(SYS_MMAP, <<0, pageSize, BitOr(PROT_READ, PROT_WRITE),
                          BitOr(MAP_ANONYMOUS, MAP_PRIVATE), mmapFd, 0>>),
          [op |-> "poke", nr |-> 0,
           args |-> Append(Abs(args.path), "NUL")],
          inj(SYS_OPEN, <<addr, BitOr(origFlags, O_CREAT), origMode>>),
          inj(SYS_DUP2, <<newFd, loc.origFd>>),
          inj(SYS_CLOSE, <<newFd>>),
          inj(SYS_MUNMAP, <<addr, pageSize>>),
          plain("detach") >>

\* Every step succeeded and the tracee was detached.
EveryStepSucceeded ==
    /\ ToolOver
    /\ failed = {}
    /\ \A i \in DOMAIN ops : ops[i].ok
    /\ Done("detach") # {}

\* C21 as claimed: on a run in which every step succeeded the listed
\* operations happened once each, in the listed order and with the listed
\* arguments, mmap being called with the descriptor argument -1.
C21_Original ==
    EveryStepSucceeded => ListedOps = FlipSequence(-1)

\* C21 as amended: the same sequence, mmap being called with the
\* descriptor argument 0.
C21_Amended ==
    EveryStepSucceeded => ListedOps = FlipSequence(0)

\* C21's case: a run in which every step succeeded, on a path given
\* relative to the working directory.
C21_Witness ==
    /\ EveryStepSucceeded
    /\ args.path = RelFile
    /\ nRet = 6

\* C22: when the platform and the pid are fine and the target process
\* holds the file the input path names, relative or absolute, preflight
\* passes with the absolute form of the path and a descriptor that
\* referred to that file.
C22_LocatorAbsolute ==
    (/\ pc # "preflight"
     /\ platformOk
     /\ args.pid > 1
     /\ world0.fs[Abs(args.path)] # NoFile
     /\ ~NoHolderAtStart)
    => /\ PreflightPassed
       /\ loc.filePath = Abs(args.path)
       /\ world0.fds[loc.origFd] # Closed
       /\ world0.fds[loc.origFd].inode = world0.fs[Abs(args.path)]

\* ------------------------------------------------------- termination
\* The tracer's own steps, its waits excepted: the program keeps running.
TracerStep ==
    \/ PreflightCheck
    \/ Rollover
    \/ Setup
    \/ SetupOptions
    \/ CatchSyscallResume
    \/ Hijack
    \/ RemoteSyscallResult
    \/ WritePath
    \/ Cleanup

\* The tracer runs; a wait4 that has something to report returns; a
\* running tracee with system calls left reaches the next one; the kernel
\* finishes a system call it entered and delivers a pending signal.
\* Signals sent by others and the tracee's death are under no obligation.
Fairness ==
    /\ WF_vars(TracerStep)
    /\ WF_vars(WaitChild)
    /\ WF_vars(TraceeSyscall)
    /\ WF_vars(KernelRunSyscall)
    /\ WF_vars(SignalDelivery)

SpecLive == Init /\ [][Next]_vars /\ Fairness

\* catchSyscall waits for a tracee that runs and has no system call left.
NeverReachesSyscall ==
    /\ pc = "rs_catch_wait"
    /\ tstate = "user"
    /\ regs.rip = MaxRip
    /\ kern.pending = {}

\* C23: a run that passed preflight terminates, whatever the tracee does
\* and also when it dies in between, so no RemoteSyscall is begun that
\* neither returns nor ends in the tracer's exit; the one exception is
\* catchSyscall's wait for a tracee that never reaches a system call.
C23_Terminates == PreflightPassed ~> (ToolOver \/ NeverReachesSyscall)

\* The tracee died after some injected calls had returned, the tracer saw
\* it in a wait and has exited.
C23_Witness ==
    /\ pc = "exited"
    /\ exitCode = exitErr
    /\ tstate = "dead"
    /\ trace.childState \in {childExited, childKilled}
    /\ nRet \in 1..5

\* The injected open returned a descriptor.
OpenSucceeded ==
    \E i \in DOMAIN ops :
        ops[i].op = "return" /\ ops[i].nr = SYS_OPEN /\ ops[i].ok

\* C24: when the tool has detached after an injected open that succeeded,
\* whether the flip succeeded or dup2 failed, every descriptor the tracee
\* holds is one it held before the flip.
C24_TransientClosed ==
    (/\ ToolOver
     /\ Done("detach") # {}
     /\ OpenSucceeded
     /\ "close" \notin failed)
    => \A n \in FdNums : fds[n] # Closed => world0.fds[n] # Closed

\* C25: an attached Child is never in the running state; once a wait has
\* been classified the state is not running and is never running again;
\* so after Cleanup has detached, Setup's switch does not take the branch
\* that issues an attach request.
C25_AttachedNotRunning ==
    /\ trace.attached => trace.childState # childRunning
    /\ (\E i \in DOMAIN ops : ops[i].op = "wait")
           => trace.childState # childRunning
    /\ Done("detach") # {} => setupBranch(trace) # "attach"

\* Cleanup has detached: the flag is cleared, the state is still the stop
\* observed last, and Setup would go straight to PtraceSetOptions.
C25_Witness ==
    /\ Done("detach") # {}
    /\ trace.attached = FALSE
    /\ trace.childState = childSyscallExit
    /\ setupBranch(trace) = "options"

=============================================================================
